---- MODULE Spec2Model ----
(***************************************************************************)
(* State-machine model of the editing core in src/main.rs: Line, File,     *)
(* Editor, Editor::apply and the operations it dispatches to, the render   *)
(* pass Editor::draw, and the run loop of main.                            *)
(*                                                                         *)
(* A Rust String is modelled as a sequence of characters; its len() is the *)
(* number of UTF-8 bytes, so every character carries its encoded width.    *)
(* Vec indices are 0-based in the source and 1-based here: v[i] in the     *)
(* source is v[i + 1] in the model.  A panic (an out-of-range index, an    *)
(* unwrap of None) unwinds the only thread: the model records the function *)
(* that panicked in `panic`, keeps the assignments made before the panic,  *)
(* and takes no further step.                                              *)
(***************************************************************************)
EXTENDS Integers, Sequences, FiniteSets, TLC

VARIABLES
    open,       \* Editor.open: index of the active File (0-based)
    files,      \* Editor.files: sequence of File records
    panic,      \* "none", or the function whose panic unwound the thread
    flow,       \* ControlFlow returned by the last apply ("None" before any)
    history,    \* the actions passed to apply so far, oldest first
    rendered,   \* whether a render pass ran since the last apply
    drawn,      \* the draw instructions that render pass emitted, in order
    pc,         \* "api": apply/draw driven by a caller; else position in main
    event       \* the input event main's last poll delivered ("none": no event)

vars == <<open, files, panic, flow, history, rendered, drawn, pc, event>>

-----------------------------------------------------------------------------
(* Bounds *)

\* Number of apply calls explored in one behaviour.
MaxDispatch == 4

-----------------------------------------------------------------------------
(* Strings *)

\* mem::size_of::<u8>(): the divisor of the dirty-bitmap index arithmetic.
SizeOfU8 == 1

\* A character encoded in two UTF-8 bytes (U+00E9); all others used are ASCII.
EAcute == "e_acute"

\* char::len_utf8
Utf8Len(c) == IF c = EAcute THEN 2 ELSE 1

\* String::len: the length in bytes
RECURSIVE StrLen(_)
StrLen(s) == IF s = <<>> THEN 0 ELSE Utf8Len(Head(s)) + StrLen(Tail(s))

\* Byte offset at which the i-th character (1-based) of s starts.
ByteStart(s, i) == StrLen(SubSeq(s, 1, i - 1))

\* str::get(x..=x): Some(one-character string) when bytes x and x + 1 are both
\* character boundaries within s, else None.  Some(c) is <<c>>, None is <<>>.
StrGet(s, x) ==
    IF \E i \in 1..Len(s) : ByteStart(s, i) = x /\ Utf8Len(s[i]) = 1
    THEN LET i == CHOOSE j \in 1..Len(s) : ByteStart(s, j) = x /\ Utf8Len(s[j]) = 1
         IN  <<s[i]>>
    ELSE <<>>

\* A pop at the wrong end: drops the first character, if any.
StrPop_front(s) == IF s = <<>> THEN s ELSE Tail(s)

\* String::pop: drops the last character, if any.
StrPop(s) == IF s = <<>> THEN s ELSE SubSeq(s, 1, Len(s) - 1)

\* The texts Place carries.
Texts == { <<>>, <<"h", "i">>, <<"!">>, <<"a", "b", "c">>, <<EAcute>> }

\* The characters KeyCode::Char delivers.
KeyChars == {"h", "!", EAcute}

Min(a, b) == IF a <= b THEN a ELSE b
Max(a, b) == IF a >= b THEN a ELSE b

\* i64::saturating_add.  Every operand here is bounded by the bytes placed in
\* one behaviour, so the saturation bound 2^63 - 1 is never approached.
saturating_add(a, b) == a + b

\* Vec::resize / Vec::resize_with: truncates or pads with `d` to length n.
Resize(v, n, d) ==
    IF n <= Len(v) THEN SubSeq(v, 1, n)
    ELSE v \o [i \in 1..(n - Len(v)) |-> d]

\* Whether `i as usize` indexes v (a negative i64 casts to a huge usize).
InRange(i, v) == i >= 0 /\ i < Len(v)

\* b & (1 << k) != 0 on a u8
TestBit(b, k) == (b \div (2 ^ k)) % 2 = 1

\* b | (1 << k) on a u8
SetBit(b, k) == IF TestBit(b, k) THEN b ELSE b + 2 ^ k

-----------------------------------------------------------------------------
(* Data model *)

\* Line::default
LineDefault == [dirty |-> <<>>, forward |-> <<>>, backward |-> <<>>]

\* Line::len
LineLen(line) == StrLen(line.forward) + StrLen(line.backward)

\* LogicalPos::default
PosDefault == [x |-> 0, y |-> 0]

\* File::default
FileDefault ==
    [lines |-> <<>>, current_caret |-> PosDefault, desired_caret |-> PosDefault]

\* An Editor constructed without any File.
EditorDefault_no_file == [open |-> 0, files |-> <<>>]

\* Editor::default (last_activity is stored and never read)
EditorDefault == [open |-> 0, files |-> <<FileDefault>>]

\* The Action values; every action has the same shape, s is Place's text.
Act(op, s) == [op |-> op, s |-> s]

\* I64Vec2::X, -I64Vec2::X, I64Vec2::Y, -I64Vec2::Y as passed by apply
MoveRight == [x |-> 1, y |-> 0]
MoveLeft  == [x |-> -1, y |-> 0]
MoveUp    == [x |-> 0, y |-> 1]
MoveDown  == [x |-> 0, y |-> -1]

\* The editor as a value, and the outcome of one operation on it.
Ed == [open |-> open, files |-> files]
Outcome(o, f, p) == [open |-> o, files |-> f, panic |-> p]

-----------------------------------------------------------------------------
(* Editor::remove *)

\* main.rs:99 computes current_caret.x.saturating_sub(1) and drops the value:
\* the caret column after remove is the column before it.
caret_after_remove(x) == x

\* A backspace that moves the character across the caret, into the
\* after-segment, instead of deleting it.
remove_moving_to_after(e) ==
    IF ~InRange(e.open, e.files) THEN Outcome(e.open, e.files, "remove")
    ELSE LET file == e.files[e.open + 1]
             row  == file.current_caret.y
         IN  IF ~InRange(row, file.lines) THEN Outcome(e.open, e.files, "remove")
             ELSE LET fwd   == file.lines[row + 1].forward
                      file1 ==
                        IF fwd = <<>> THEN file
                        ELSE [file EXCEPT
                                !.lines[row + 1].forward = StrPop(@),
                                !.lines[row + 1].backward = <<fwd[Len(fwd)]>> \o @]
                  IN  Outcome(e.open, [e.files EXCEPT ![e.open + 1] = file1], "none")

\* A backspace that drops the line once its text is gone.
remove_dropping_line(e) ==
    IF ~InRange(e.open, e.files) THEN Outcome(e.open, e.files, "remove")
    ELSE LET file == e.files[e.open + 1]
             row  == file.current_caret.y
         IN  IF ~InRange(row, file.lines) THEN Outcome(e.open, e.files, "remove")
             ELSE LET file1 ==
                        IF file.lines[row + 1].forward = <<>>
                        THEN [file EXCEPT !.lines = SubSeq(@, 1, row)]
                        ELSE [file EXCEPT !.lines[row + 1].forward = StrPop(@)]
                  IN  Outcome(e.open, [e.files EXCEPT ![e.open + 1] = file1], "none")

remove(e) ==
    IF ~InRange(e.open, e.files) THEN Outcome(e.open, e.files, "remove")
    ELSE LET file == e.files[e.open + 1]
             row  == file.current_caret.y
         IN  IF ~InRange(row, file.lines) THEN Outcome(e.open, e.files, "remove")
             ELSE LET file1 == [file EXCEPT
                                  !.lines[row + 1].forward = StrPop(@),
                                  !.current_caret.x = caret_after_remove(@)]
                  IN  Outcome(e.open, [e.files EXCEPT ![e.open + 1] = file1], "none")

-----------------------------------------------------------------------------
(* Editor::place *)

\* The advance without the clamp to the line's length.
caret_after_place_unclamped(x, s_len, line_len) == saturating_add(x, s_len)

\* current_caret.x.saturating_add(s.len()).min(line.len())
caret_after_place(x, s_len, line_len) == Min(saturating_add(x, s_len), line_len)

\* A resize without the extra byte.
dirty_after_resize_exact(dirty, line_len) == Resize(dirty, line_len \div SizeOfU8, 0)

\* line.dirty.resize(line.len() / size_of::<u8>() + 1, 0)
dirty_after_resize(dirty, line_len) == Resize(dirty, line_len \div SizeOfU8 + 1, 0)

place(e, s) ==
    IF ~InRange(e.open, e.files) THEN Outcome(e.open, e.files, "place")
    ELSE LET file == e.files[e.open + 1]
             row  == file.current_caret.y
         IN  IF row < 0 THEN Outcome(e.open, e.files, "place")
             ELSE LET lines1 == Resize(file.lines, row + 1, LineDefault)
                      line1  == [lines1[row + 1] EXCEPT !.forward = @ \o s]
                      x1     == caret_after_place(file.current_caret.x, StrLen(s),
                                                  LineLen(line1))
                      line2  == [line1 EXCEPT
                                   !.dirty = dirty_after_resize(@, LineLen(line1))]
                      idx    == x1 \div SizeOfU8
                      line3  == [line2 EXCEPT
                                   !.dirty[idx + 1] = SetBit(@, x1 % SizeOfU8)]
                      put(l) == [file EXCEPT !.lines = [lines1 EXCEPT ![row + 1] = l],
                                             !.current_caret.x = x1]
                  IN  IF ~InRange(idx, line2.dirty)
                      THEN Outcome(e.open, [e.files EXCEPT ![e.open + 1] = put(line2)],
                                   "place")
                      ELSE Outcome(e.open, [e.files EXCEPT ![e.open + 1] = put(line3)],
                                   "none")

-----------------------------------------------------------------------------
(* Editor::move_caret *)

\* desired_caret.y.max(line_count as _)
clamp_row(y, line_count) == Max(y, line_count)

\* desired_caret.x.max(line_len as _)
clamp_column(x, line_len) == Max(x, line_len)

\* A movement that commits the requested row to current_caret as well.
move_caret_committing(e, m) ==
    IF ~InRange(e.open, e.files) THEN Outcome(e.open, e.files, "move_caret")
    ELSE LET file       == e.files[e.open + 1]
             line_count == Len(file.lines)
             x1         == file.desired_caret.x + m.x
             y1         == clamp_row(file.desired_caret.y + m.y, line_count)
             moved(x)   == [file EXCEPT !.desired_caret = [x |-> x, y |-> y1],
                                        !.current_caret.y = y1]
         IN  IF ~InRange(y1, file.lines)
             THEN Outcome(e.open, [e.files EXCEPT ![e.open + 1] = moved(x1)],
                          "move_caret")
             ELSE LET x2 == clamp_column(x1, LineLen(file.lines[y1 + 1]))
                  IN  Outcome(e.open, [e.files EXCEPT ![e.open + 1] = moved(x2)],
                              "none")

move_caret(e, m) ==
    IF ~InRange(e.open, e.files) THEN Outcome(e.open, e.files, "move_caret")
    ELSE LET file       == e.files[e.open + 1]
             line_count == Len(file.lines)
             x1         == file.desired_caret.x + m.x
             y1         == clamp_row(file.desired_caret.y + m.y, line_count)
             moved(x)   == [file EXCEPT !.desired_caret = [x |-> x, y |-> y1]]
         IN  IF ~InRange(y1, file.lines)
             THEN Outcome(e.open, [e.files EXCEPT ![e.open + 1] = moved(x1)],
                          "move_caret")
             ELSE LET x2 == clamp_column(x1, LineLen(file.lines[y1 + 1]))
                  IN  Outcome(e.open, [e.files EXCEPT ![e.open + 1] = moved(x2)],
                              "none")

-----------------------------------------------------------------------------
(* Editor::apply *)

\* Arms wired to the backspace operation.
apply_Exit_removes(e)   == remove(e)
apply_Delete_removes(e) == remove(e)

\* The arms of apply's match that call nothing.
apply_Exit(e)   == Outcome(e.open, e.files, "none")
apply_Delete(e) == Outcome(e.open, e.files, "none")

\* ControlFlow of the arm: Exit returns early, every other arm falls through to
\* ControlFlow::Continue.
flow_of(op) == IF op = "Exit" THEN "Exit" ELSE "Continue"

apply(e, action) ==
    LET r == CASE action.op = "Exit"   -> apply_Exit(e)
               [] action.op = "Right"  -> move_caret(e, MoveRight)
               [] action.op = "Left"   -> move_caret(e, MoveLeft)
               [] action.op = "Up"     -> move_caret(e, MoveUp)
               [] action.op = "Down"   -> move_caret(e, MoveDown)
               [] action.op = "Delete" -> apply_Delete(e)
               [] action.op = "Place"  -> place(e, action.s)
               [] action.op = "Remove" -> remove(e)
    IN  [open  |-> r.open,
         files |-> r.files,
         panic |-> r.panic,
         flow  |-> IF r.panic = "none" THEN flow_of(action.op) ELSE "None"]

-----------------------------------------------------------------------------
(* Editor::draw *)

\* `x as u16`
AsU16(v) == v % 65536

\* One draw instruction: MoveTo(column, row) followed by Print(ch).
Instr(column, row, ch) == [column |-> AsU16(column), row |-> AsU16(row), ch |-> ch]

\* The loop over the columns x..dirty.len() of one line.  A MoveTo whose Print
\* panics on unwrap moves the cursor and prints nothing: no instruction.  The
\* panic of a bitmap read out of range is "draw_index", that of the unwrap "draw".
RECURSIVE draw_columns(_, _, _, _)
draw_columns(line, y, x, out) ==
    IF x >= Len(line.dirty) THEN [out |-> out, panic |-> "none"]
    ELSE IF ~InRange(x \div SizeOfU8, line.dirty)
         THEN [out |-> out, panic |-> "draw_index"]
    ELSE IF ~TestBit(line.dirty[x \div SizeOfU8 + 1], x % SizeOfU8)
         THEN draw_columns(line, y, x + 1, out)
    ELSE IF x < StrLen(line.forward)
         THEN LET got == StrGet(line.forward, x)
              IN  IF got = <<>> THEN [out |-> out, panic |-> "draw"]
                  ELSE draw_columns(line, y, x + 1,
                                    Append(out, Instr(x, y, got[1])))
    ELSE LET xb  == x - StrLen(line.forward)
             got == StrGet(line.backward, xb)
         IN  IF got = <<>> THEN draw_columns(line, y, x + 1, out)
             ELSE draw_columns(line, y, x + 1, Append(out, Instr(xb, y, got[1])))

\* The loop over the lines y..lines.len() of the active File.
RECURSIVE draw_lines(_, _, _)
draw_lines(lines, y, out) ==
    IF y >= Len(lines) THEN [out |-> out, panic |-> "none"]
    ELSE LET r == draw_columns(lines[y + 1], y, 0, out)
         IN  IF r.panic # "none" THEN r ELSE draw_lines(lines, y + 1, r.out)

draw(e) ==
    IF ~InRange(e.open, e.files) THEN [out |-> <<>>, panic |-> "draw"]
    ELSE draw_lines(e.files[e.open + 1].lines, 0, <<>>)

-----------------------------------------------------------------------------
(* Steps *)

Init ==
    /\ open = EditorDefault.open
    /\ files = EditorDefault.files
    /\ panic = "none"
    /\ flow = "None"
    /\ history = <<>>
    /\ rendered = FALSE
    /\ drawn = <<>>
    /\ pc \in {"api", "sleep"}
    /\ event = "none"

\* One call of Editor::apply.
Dispatch(action) ==
    /\ panic = "none"
    /\ Len(history) < MaxDispatch
    /\ LET r == apply(Ed, action)
       IN  /\ open' = r.open
           /\ files' = r.files
           /\ panic' = r.panic
           /\ flow' = r.flow
    /\ history' = Append(history, action)
    /\ rendered' = FALSE
    /\ drawn' = <<>>

\* One call of Editor::draw.
Render ==
    /\ panic = "none"
    /\ LET r == draw(Ed)
       IN  /\ drawn' = r.out
           /\ panic' = r.panic
    /\ rendered' = TRUE
    /\ UNCHANGED <<open, files, flow, history>>

\* A caller of the Editor's interface passes any action to apply, at any time,
\* and may call draw between two of them.
Exit ==
    /\ pc = "api"
    /\ Dispatch(Act("Exit", <<>>))
    /\ UNCHANGED <<pc, event>>

Up ==
    /\ pc = "api"
    /\ Dispatch(Act("Up", <<>>))
    /\ UNCHANGED <<pc, event>>

Down ==
    /\ pc = "api"
    /\ Dispatch(Act("Down", <<>>))
    /\ UNCHANGED <<pc, event>>

Left ==
    /\ pc = "api"
    /\ Dispatch(Act("Left", <<>>))
    /\ UNCHANGED <<pc, event>>

Right ==
    /\ pc = "api"
    /\ Dispatch(Act("Right", <<>>))
    /\ UNCHANGED <<pc, event>>

Place(s) ==
    /\ pc = "api"
    /\ Dispatch(Act("Place", s))
    /\ UNCHANGED <<pc, event>>

Remove ==
    /\ pc = "api"
    /\ Dispatch(Act("Remove", <<>>))
    /\ UNCHANGED <<pc, event>>

Delete ==
    /\ pc = "api"
    /\ Dispatch(Act("Delete", <<>>))
    /\ UNCHANGED <<pc, event>>

Draw ==
    /\ pc = "api"
    /\ Render
    /\ UNCHANGED <<pc, event>>

\* A cycle that goes from the sleep straight to the poll.
MainSleep_skipping_draw ==
    /\ pc = "sleep" /\ panic = "none"
    /\ pc' = "poll"
    /\ UNCHANGED <<open, files, panic, flow, history, rendered, drawn, event>>

\* main's loop: sleep and size(), draw, poll and read, match on the event.
MainSleep ==
    /\ pc = "sleep" /\ panic = "none"
    /\ pc' = "draw"
    /\ UNCHANGED <<open, files, panic, flow, history, rendered, drawn, event>>

MainDraw ==
    /\ pc = "draw"
    /\ Render
    /\ pc' = IF panic' = "none" THEN "poll" ELSE pc
    /\ UNCHANGED event

\* poll does not return Ok(true): continue
MainPollNone ==
    /\ pc = "poll" /\ panic = "none"
    /\ event' = "none"
    /\ pc' = "sleep"
    /\ UNCHANGED <<open, files, panic, flow, history, rendered, drawn>>

\* KeyCode::Esc: break
MainKeyEsc ==
    /\ pc = "poll" /\ panic = "none"
    /\ event' = "Esc"
    /\ pc' = "done"
    /\ UNCHANGED <<open, files, panic, flow, history, rendered, drawn>>

\* KeyCode::Backspace: editor.apply(Action::Remove)
MainKeyBackspace ==
    /\ pc = "poll"
    /\ event' = "Backspace"
    /\ Dispatch(Act("Remove", <<>>))
    /\ pc' = IF panic' = "none" THEN "sleep" ELSE pc

\* KeyCode::Char(c): editor.apply(Action::Place(c.to_string()))
MainKeyChar(c) ==
    /\ pc = "poll"
    /\ event' = "Char"
    /\ Dispatch(Act("Place", <<c>>))
    /\ pc' = IF panic' = "none" THEN "sleep" ELSE pc

\* Any other event: nothing
MainKeyOther ==
    /\ pc = "poll" /\ panic = "none"
    /\ event' = "Other"
    /\ pc' = "sleep"
    /\ UNCHANGED <<open, files, panic, flow, history, rendered, drawn>>

Next ==
    \/ Exit
    \/ Up
    \/ Down
    \/ Left
    \/ Right
    \/ \E s \in Texts : Place(s)
    \/ Remove
    \/ Delete
    \/ Draw
    \/ MainSleep
    \/ MainDraw
    \/ MainPollNone
    \/ MainKeyEsc
    \/ MainKeyBackspace
    \/ \E c \in KeyChars : MainKeyChar(c)
    \/ MainKeyOther

Spec == Init /\ [][Next]_vars

-----------------------------------------------------------------------------
(* Vocabulary of the properties *)

\* The active File and its lines (the File every operation indexes).
Active == files[open + 1]
Lines  == Active.lines

\* The row the write operations address, and whether its line exists.
Row       == Active.current_caret.y
RowExists == InRange(Row, Lines)

\* The dirty bit of column c as draw reads it.
DirtyBit(line, c) ==
    /\ InRange(c \div SizeOfU8, line.dirty)
    /\ TestBit(line.dirty[c \div SizeOfU8 + 1], c % SizeOfU8)

\* The columns whose dirty bit a bitmap of that many bytes can hold.
Columns(nbytes) == 0 .. (nbytes * 8)

\* This step is one call of apply, with this action.
Applied(op)  == history' # history /\ history'[Len(history')].op = op
AppliedText  == history'[Len(history')].s
AppliedMove  == \E op \in {"Up", "Down", "Left", "Right"} : Applied(op)

\* The action of the last apply.
LastOp == IF history = <<>> THEN "none" ELSE history[Len(history)].op

PlaceHi   == Act("Place", <<"h", "i">>)
PlaceBang == Act("Place", <<"!">>)
PlaceAbc  == Act("Place", <<"a", "b", "c">>)
RemoveAct == Act("Remove", <<>>)

-----------------------------------------------------------------------------
(* C1 *)

\* C1: every dispatch of every action completes normally and returns a
\* ControlFlow value; no apply ends in a panic (an out-of-range line index or
\* any other failure), on a Document without lines included.
C1_DispatchTotal ==
    history # <<>> =>
        /\ panic \notin {"remove", "place", "move_caret"}
        /\ flow \in {"Continue", "Exit"}

-----------------------------------------------------------------------------
(* C2 *)

\* desired_caret addresses an existing row and a column within that row's line.
DesiredValid ==
    /\ InRange(Active.desired_caret.y, Lines)
    /\ Active.desired_caret.x >= 0
    /\ Active.desired_caret.x <= LineLen(Lines[Active.desired_caret.y + 1])

\* C2: after each Up/Down/Left/Right dispatched on a Document with at least one
\* line, desired_caret.row is a valid row index and desired_caret.column lies
\* between 0 and the length of that row's line.
C2_MovementClamping ==
    [][(AppliedMove /\ Len(Lines) >= 1) => DesiredValid']_vars

-----------------------------------------------------------------------------
(* C3 *)

\* C3: Remove dispatched when the line at current_caret.row is already empty is
\* a no-op without error: the line stays empty and current_caret.column is 0.
C3_BackspaceSaturation ==
    [][(Applied("Remove") /\ RowExists /\ Lines[Row + 1].forward = <<>>)
          => /\ panic' = "none"
             /\ Lines'[Row' + 1].forward = <<>>
             /\ Active'.current_caret.x = 0]_vars

-----------------------------------------------------------------------------
(* C4 *)

\* C4: from the default Editor, after Place("hi"), Place("!"), Remove, Remove
\* line 0 reads "h", current_caret is (column 1, row 0), and the following
\* render pass draws 'h' at column 0 and nothing beyond column 0 of that line.
C4_Scenario ==
    history = <<PlaceHi, PlaceBang, RemoveAct, RemoveAct>> =>
        /\ panic = "none"
        /\ Len(Lines) >= 1
        /\ Lines[1].forward \o Lines[1].backward = <<"h">>
        /\ Active.current_caret = [x |-> 1, y |-> 0]
        /\ rendered =>
              /\ \E i \in 1..Len(drawn) : drawn[i] = Instr(0, 0, "h")
              /\ \A i \in 1..Len(drawn) : drawn[i].row = 0 => drawn[i].column = 0

-----------------------------------------------------------------------------
(* C5 *)

\* Length of the line place writes to, 0 when the row does not exist yet.
RowLen == IF RowExists THEN LineLen(Lines[Row + 1]) ELSE 0

\* Dirty bit of column c of that line, clear when the row does not exist yet.
RowDirty(c) == RowExists /\ DirtyBit(Lines[Row + 1], c)

\* C5: place(s) on a line of length n sets the dirty bits of the columns
\* n .. n + len(s) - 1 it writes, and changes no other bit.
C5_DirtyCoverage ==
    [][Applied("Place") =>
          /\ panic' = "none"
          /\ \A c \in Columns(RowLen + StrLen(AppliedText) + 1) :
                RowDirty(c)' <=>
                    (RowDirty(c) \/ (c >= RowLen /\ c < RowLen + StrLen(AppliedText)))
      ]_vars

-----------------------------------------------------------------------------
(* C6 *)

\* C6: a dirty bit that is set stays set: no apply and no render pass clears or
\* discards it.
C6_DirtyMonotone ==
    [][\A f \in 1..Len(files) : \A r \in 1..Len(files[f].lines) :
          \A c \in Columns(Len(files[f].lines[r].dirty)) :
             DirtyBit(files[f].lines[r], c) =>
                /\ f <= Len(files')
                /\ r <= Len(files'[f].lines)
                /\ DirtyBit(files'[f].lines[r], c)]_vars

-----------------------------------------------------------------------------
(* C7 *)

\* The line at row 0 holds no text, or the line sequence is still empty.
Row0Empty == Row = 0 /\ (Lines = <<>> \/ LineLen(Lines[1]) = 0)

\* C7: after place(s) on an empty line at row 0 (the line sequence may still be
\* empty), the line's length() is len(s) and current_caret.column is
\* min(len(s), length()).
C7_InsertionLength ==
    [][(Applied("Place") /\ Row0Empty) =>
          /\ panic' = "none"
          /\ Len(Lines') >= 1
          /\ LineLen(Lines'[1]) = StrLen(AppliedText)
          /\ Active'.current_caret.x
                = Min(StrLen(AppliedText), LineLen(Lines'[1]))]_vars

\* Place("abc") has just written a line that two Removes had emptied while the
\* caret column stayed at 2.
C7_Witness ==
    /\ history = <<PlaceHi, RemoveAct, RemoveAct, PlaceAbc>>
    /\ panic = "none"
    /\ Lines[1].forward = <<"a", "b", "c">>
    /\ Active.current_caret.x = 3

-----------------------------------------------------------------------------
(* C8 *)

\* C8: dispatching Delete returns "continue" and leaves every line, both carets
\* of every Document, every dirty bitmap, the line count and the active index
\* unchanged.
C8_DeleteNoOp ==
    [][Applied("Delete") =>
          /\ panic' = "none"
          /\ flow' = "Continue"
          /\ files' = files
          /\ open' = open]_vars

\* Delete has just been dispatched on a Document holding text.
C8_Witness ==
    /\ LastOp = "Delete"
    /\ flow = "Continue"
    /\ Len(Lines) >= 1
    /\ Lines[1].forward # <<>>

-----------------------------------------------------------------------------
(* C9 *)

\* C9: dispatching Exit reports "stop" and changes nothing in any Document; the
\* run loop ends on the Escape event without a dispatch, and once it has ended
\* it dispatches nothing more and no Document changes.
C9_Exit ==
    [][/\ Applied("Exit") =>
             /\ panic' = "none"
             /\ flow' = "Exit"
             /\ files' = files
             /\ open' = open
       /\ (pc = "poll" /\ event' = "Esc") =>
             /\ pc' = "done"
             /\ history' = history
             /\ files' = files
             /\ open' = open
       /\ pc = "done" =>
             /\ pc' = "done"
             /\ history' = history
             /\ files' = files
             /\ open' = open]_vars

\* Exit has just been dispatched on a Document holding text.
C9_Witness ==
    /\ LastOp = "Exit"
    /\ flow = "Exit"
    /\ Len(Lines) >= 1
    /\ Lines[1].forward # <<>>

\* The run loop has ended on Escape after dispatching edits.
C9_LoopEnded ==
    /\ pc = "done"
    /\ event = "Esc"
    /\ history # <<>>
    /\ Len(Lines) >= 1

-----------------------------------------------------------------------------
(* C10 *)

\* C10: the Document collection is never empty and the active index satisfies
\* 0 <= open < files.len().
C10_EditorInvariant ==
    /\ Len(files) >= 1
    /\ 0 <= open
    /\ open < Len(files)

\* Every kind of mutation has been dispatched and the Editor still runs.
C10_Witness ==
    /\ Len(history) >= 3
    /\ panic = "none"
    /\ \E i \in 1..Len(history) : history[i].op = "Place"
    /\ \E i \in 1..Len(history) : history[i].op = "Remove"
    /\ Len(files) = 1
    /\ open = 0

-----------------------------------------------------------------------------
(* C11 *)

\* Every action of h is a Place or a Remove.
OnlyEdits(h) == \A i \in 1..Len(h) : h[i].op \in {"Place", "Remove"}

\* C11: after any sequence of Place and Remove dispatches (Remove only where
\* the row exists), 0 <= current_caret.column <= length of the line at
\* current_caret.row, and a Remove that deletes a character lowers the column
\* by one.
C11_CaretWithinLine ==
    [][(history' # history /\ OnlyEdits(history') /\ panic' = "none") =>
          /\ RowExists'
          /\ Active'.current_caret.x >= 0
          /\ Active'.current_caret.x <= RowLen'
          /\ (Applied("Remove") /\ RowLen' < RowLen) =>
                Active'.current_caret.x = Active.current_caret.x - 1]_vars

-----------------------------------------------------------------------------
(* C12 *)

\* The reference string of a sequence of actions: Place appends its text,
\* Remove drops the last character if there is one, nothing else counts.
RECURSIVE Reference(_)
Reference(h) ==
    IF h = <<>> THEN <<>>
    ELSE LET before == Reference(SubSeq(h, 1, Len(h) - 1))
             last   == h[Len(h)]
         IN  CASE last.op = "Place"  -> before \o last.s
               [] last.op = "Remove" ->
                     IF before = <<>> THEN before
                     ELSE SubSeq(before, 1, Len(before) - 1)
               [] OTHER -> before

\* C12: after any sequence of Place and Remove dispatches that starts with a
\* Place, the visible text of line 0 (before-segment, then after-segment) is
\* the reference string, and length() is that string's length.
C12_ReferenceString ==
    (history # <<>> /\ OnlyEdits(history) /\ history[1].op = "Place") =>
        /\ Len(Lines) >= 1
        /\ Lines[1].forward \o Lines[1].backward = Reference(history)
        /\ LineLen(Lines[1]) = StrLen(Reference(history))

\* Two texts were placed and two characters removed, one of them of two bytes.
C12_Witness ==
    /\ history = <<PlaceHi, Act("Place", <<EAcute>>), RemoveAct, RemoveAct>>
    /\ Lines[1].forward = <<"h">>
    /\ LineLen(Lines[1]) = 1

-----------------------------------------------------------------------------
(* C13 *)

\* This step is one render pass.
RenderStep == pc \in {"api", "draw"} /\ history' = history /\ rendered'

\* The visible text of a line: before-segment, then after-segment.
Visible(line) == line.forward \o line.backward

\* The instructions of one line come in ascending column order.
Ascending(out) ==
    \A i, j \in 1..Len(out) :
        (i < j /\ out[i].row = out[j].row) => out[i].column < out[j].column

\* C13: every instruction of a render pass is (c, r, ch) with ch the character
\* at column c of row r's visible text and column c dirty; the instructions of
\* a line ascend in column; a dirty column without a character is skipped
\* without error; the pass changes no line, caret or bitmap.
C13_RenderOutput ==
    [][RenderStep =>
          /\ panic' = "none"
          /\ files' = files
          /\ open' = open
          /\ \A i \in 1..Len(drawn') :
                /\ InRange(drawn'[i].row, Lines)
                /\ StrGet(Visible(Lines[drawn'[i].row + 1]), drawn'[i].column)
                      = <<drawn'[i].ch>>
                /\ DirtyBit(Lines[drawn'[i].row + 1], drawn'[i].column)
          /\ Ascending(drawn')]_vars

-----------------------------------------------------------------------------
(* C14 *)

\* C14: the number of lines of a Document never decreases; Place grows the
\* sequence with empty lines up to current_caret.row when needed and never
\* truncates it; no movement, Remove or Delete changes the line count.
C14_LinesNeverShrink ==
    [][/\ Len(files') = Len(files)
       /\ \A f \in 1..Len(files) :
             /\ Len(files'[f].lines) >= Len(files[f].lines)
             /\ (Applied("Place") /\ f = open + 1) =>
                   /\ Len(files'[f].lines) = Max(Len(files[f].lines), Row + 1)
                   /\ \A r \in (Len(files[f].lines) + 1)..Len(files'[f].lines) :
                         r # Row + 1 => files'[f].lines[r] = LineDefault
             /\ ~(Applied("Place") /\ f = open + 1) =>
                   Len(files'[f].lines) = Len(files[f].lines)]_vars

\* Place created row 0, a Remove emptied it again, and a second Place wrote to
\* the existing line.
C14_Witness ==
    /\ history = <<PlaceBang, RemoveAct, RemoveAct, PlaceHi>>
    /\ Len(Lines) = 1
    /\ Lines[1].forward = <<"h", "i">>

-----------------------------------------------------------------------------
(* C15 *)

\* C15: in every cycle of the run loop the render pass completes before the
\* poll; a dispatch happens only at the poll, one per cycle, and is over before
\* the next render pass or poll; nothing else changes a Document; Escape ends
\* the loop, Backspace dispatches Remove, a character key dispatches Place of
\* that one character, any other event (or none) dispatches nothing.
C15_RunLoopOrder ==
    [][pc # "api" =>
          /\ (pc' = "poll" /\ panic' = "none") => (pc = "draw" /\ rendered')
          /\ pc = "sleep" => (pc' = "draw" /\ history' = history)
          /\ pc = "draw" => history' = history
          /\ pc = "done" => pc' = "done" /\ history' = history
          /\ history' # history =>
                /\ pc = "poll"
                /\ Len(history') = Len(history) + 1
                /\ panic' = "none" => pc' = "sleep"
          /\ files' # files => history' # history
          /\ (pc = "poll" /\ event' = "Esc") =>
                (pc' = "done" /\ history' = history)
          /\ (pc = "poll" /\ event' = "Backspace") =>
                history' = Append(history, RemoveAct)
          /\ (pc = "poll" /\ event' = "Char") =>
                \E c \in KeyChars : history' = Append(history, Act("Place", <<c>>))
          /\ (pc = "poll" /\ event' \in {"Other", "none"}) =>
                (pc' = "sleep" /\ history' = history)]_vars

\* The loop is at its poll again, after a render pass, in a cycle that follows
\* a character key and a Backspace.
C15_Witness ==
    /\ pc = "poll"
    /\ rendered
    /\ event = "Backspace"
    /\ Len(history) = 2
    /\ history[1].op = "Place"
    /\ history[2] = RemoveAct

-----------------------------------------------------------------------------
(* C16 *)

\* C16: the after-caret segment of every line is empty, so each line's length
\* is the length of its before-segment.
C16_AfterSegmentEmpty ==
    \A f \in 1..Len(files) : \A r \in 1..Len(files[f].lines) :
        /\ files[f].lines[r].backward = <<>>
        /\ LineLen(files[f].lines[r]) = StrLen(files[f].lines[r].forward)

\* A line has been written to and backspaced and still holds text.
C16_Witness ==
    /\ history = <<PlaceAbc, RemoveAct, PlaceHi>>
    /\ Lines[1].forward = <<"a", "b", "h", "i">>
    /\ Lines[1].backward = <<>>

-----------------------------------------------------------------------------
(* C17 *)

\* C17: when place sets a dirty bit, the index it uses (the caret column after
\* the advance) lies within the bitmap it has just resized, and no render pass
\* reads a bitmap entry out of range.
C17_BitmapIndexInRange ==
    [][/\ Applied("Place") =>
             /\ panic' # "place"
             /\ RowExists'
             /\ InRange(Active'.current_caret.x \div SizeOfU8, Lines'[Row' + 1].dirty)
             /\ Len(Lines'[Row' + 1].dirty) = RowLen' \div SizeOfU8 + 1
       /\ RenderStep => panic' # "draw_index"]_vars

\* Place has just set the bit of the last byte of the bitmap (the column equal
\* to the line's length), with the caret column left stale by a Remove.
C17_Witness ==
    /\ history = <<PlaceAbc, RemoveAct, PlaceBang>>
    /\ panic = "none"
    /\ Active.current_caret.x = 3
    /\ Lines[1].dirty = <<0, 0, 0, 1>>

-----------------------------------------------------------------------------
(* C18 *)

\* C18: current_caret.row is 0 and the Document has at most one line; no step
\* changes current_caret.row, whatever movement was requested.
C18_WriteRowFixed ==
    \A f \in 1..Len(files) :
        /\ files[f].current_caret.y = 0
        /\ Len(files[f].lines) <= 1

\* A movement has been dispatched on a Document holding a line.
C18_Witness ==
    /\ Len(history) >= 2
    /\ history[1].op = "Place"
    /\ LastOp \in {"Up", "Down", "Left", "Right"}
    /\ Active.desired_caret # PosDefault
    /\ Active.current_caret.y = 0
    /\ Len(Lines) = 1

====
